---- MODULE Spec2Model ----
(***************************************************************************)
(* udp-proxy-2020: relay of UDP broadcasts between network interfaces.     *)
(* Model of cmd/listen.go (processListener, initalizeListeners,            *)
(* handlePackets, sendPacket) and cmd/interfaces.go (initalizeInterface).  *)
(* Strings are sequences of one-character strings, IP addresses are        *)
(* sequences of bytes, a captured frame is a record of its wire fields.    *)
(***************************************************************************)
EXTENDS Integers, Sequences, FiniteSets, TLC

Nil == "nil"

(***************************************************************************)
(* Bounds of the model.                                                    *)
(***************************************************************************)
\* number of frames captured in one run of Spec with at most two listeners
MaxCaptures == 2
\* number of frames captured in one run of Spec with more than two listeners
MaxCapturesWide == 1

(***************************************************************************)
(* Strings.                                                                *)
(***************************************************************************)
Digits == <<"0", "1", "2", "3", "4", "5", "6", "7", "8", "9">>

IsDigit(c) == \E i \in 1..10 : Digits[i] = c

DigitVal(c) == (CHOOSE i \in 1..10 : Digits[i] = c) - 1

\* strings.Split(s, sep) for a one-character separator
RECURSIVE SplitFrom(_, _, _, _)
SplitFrom(s, sep, i, cur) ==
    IF i > Len(s) THEN <<cur>>
    ELSE IF s[i] = sep THEN <<cur>> \o SplitFrom(s, sep, i + 1, <<>>)
    ELSE SplitFrom(s, sep, i + 1, Append(cur, s[i]))

Split(s, sep) == SplitFrom(s, sep, 1, <<>>)

\* strings.HasPrefix(s, prefix)
HasPrefix(s, prefix) ==
    /\ Len(s) >= Len(prefix)
    /\ SubSeq(s, 1, Len(prefix)) = prefix

\* decimal value of a string of digits
RECURSIVE Atoi(_)
Atoi(s) == IF s = <<>> THEN 0 ELSE 10 * Atoi(SubSeq(s, 1, Len(s) - 1)) + DigitVal(s[Len(s)])

\* one field of a dotted quad: 1 to 3 digits, no leading zero, at most 255
IsOctet(s) ==
    /\ Len(s) \in 1..3
    /\ \A i \in 1..Len(s) : IsDigit(s[i])
    /\ (Len(s) > 1 => s[1] # "0")
    /\ Atoi(s) <= 255

v4InV6Prefix == <<0, 0, 0, 0, 0, 0, 0, 0, 0, 0, 255, 255>>

\* the nil IP address: a slice without bytes
NilIP == <<>>

\* net.ParseIP on a dotted quad: the 16-byte form of the address, or nil
ParseIP(s) ==
    LET p == Split(s, ".") IN
    IF Len(p) = 4 /\ \A i \in 1..4 : IsOctet(p[i])
    THEN v4InV6Prefix \o <<Atoi(p[1]), Atoi(p[2]), Atoi(p[3]), Atoi(p[4])>>
    ELSE NilIP

\* net.IP.To4: the 4-byte form of an IPv4 address, or nil
To4(ip) ==
    IF Len(ip) = 4 THEN ip
    ELSE IF Len(ip) = 16 /\ SubSeq(ip, 1, 12) = v4InV6Prefix THEN SubSeq(ip, 13, 16)
    ELSE NilIP

\* the decimal text of a byte, and the dotted text of a 4-byte address
Itoa(n) ==
    IF n < 10 THEN <<Digits[n + 1]>>
    ELSE IF n < 100 THEN <<Digits[(n \div 10) + 1], Digits[(n % 10) + 1]>>
    ELSE <<Digits[(n \div 100) + 1], Digits[((n \div 10) % 10) + 1], Digits[(n % 10) + 1]>>

Dotted(a) == Itoa(a[1]) \o <<".">> \o Itoa(a[2]) \o <<".">> \o Itoa(a[3]) \o <<".">> \o Itoa(a[4])

(***************************************************************************)
(* Inputs: the configuration lists and the interfaces of the host.         *)
(***************************************************************************)
eth0 == <<"e", "0">>
eth1 == <<"e", "1">>
eth2 == <<"e", "2">>

Bcast1 == <<"1", "0", ".", "0", ".", "1", ".", "2", "5", "5">>
Bcast2 == <<"1", "0", ".", "0", ".", "2", ".", "2", "5", "5">>
Bcast3 == <<"1", "0", ".", "0", ".", "3", ".", "2", "5", "5">>

At(iface, ip) == iface \o <<"@">> \o ip

GoodConfigs ==
    { <<At(eth0, Bcast1), At(eth1, Bcast2)>>,
      <<At(eth0, Bcast1), At(eth1, Bcast2), At(eth2, Bcast3)>> }

DuplicateConfigs ==
    { <<At(eth0, Bcast1), At(eth0, Bcast1)>>,
      <<At(eth0, Bcast1), At(eth0, Bcast2)>>,
      <<At(eth0, Bcast1), At(eth1, Bcast2), At(eth0, Bcast3)>> }

MalformedConfigs ==
    { <<eth0>>,
      <<At(eth0, Bcast1), eth1>>,
      <<At(At(eth0, Bcast1), Bcast2), At(eth1, Bcast2)>>,
      <<At(eth0, Bcast1), At(eth1, Bcast2), At(At(eth2, Bcast3), Bcast1)>> }

Configs == GoodConfigs \cup DuplicateConfigs \cup MalformedConfigs

\* link types of capture handles; Raw stands for every type sendPacket has no case for
LinkTypeNull == "Null"
LinkTypeEthernet == "Ethernet"
LinkTypeLoop == "Loop"
LinkTypeRaw == "Raw"

Host1 == <<10, 0, 1, 1>>
Host2 == <<10, 0, 2, 1>>
Host3 == <<10, 0, 3, 1>>
V6Addr == <<254, 128, 0, 0, 0, 0, 0, 0, 0, 0, 0, 0, 0, 0, 0, 1>>

\* what pcap.FindAllDevs reports: the addresses and the link type of each device
Hosts ==
    { [n \in {eth0, eth1, eth2} |->
          IF n = eth0 THEN [Addresses |-> <<Host1>>, link |-> LinkTypeEthernet]
          ELSE IF n = eth1 THEN [Addresses |-> <<V6Addr, Host2, Host3>>, link |-> LinkTypeEthernet]
          ELSE [Addresses |-> <<Host3>>, link |-> LinkTypeNull]],
      [n \in {eth0, eth1, eth2} |->
          IF n = eth0 THEN [Addresses |-> <<Host1>>, link |-> LinkTypeLoop]
          ELSE IF n = eth1 THEN [Addresses |-> <<Host2>>, link |-> LinkTypeRaw]
          ELSE [Addresses |-> <<V6Addr>>, link |-> LinkTypeEthernet]],
      [n \in {eth0, eth1, eth2} |->
          IF n = eth0 THEN [Addresses |-> <<>>, link |-> LinkTypeEthernet]
          ELSE [Addresses |-> <<Host2>>, link |-> LinkTypeEthernet]] }

(***************************************************************************)
(* Captured frames: the wire fields behind the link-layer header.          *)
(***************************************************************************)
BaseFrame ==
    [etype |-> "IPv4", ihl |-> 5, tos |-> 0, length |-> 29, id |-> 7,
     flags |-> {}, fragoff |-> 0, ttl |-> 64, protocol |-> 17,
     src |-> <<192, 168, 1, 50>>, dst |-> <<192, 168, 1, 255>>, options |-> <<>>,
     sport |-> 12345, dport |-> 9999, data |-> <<42>>]

\* one IP option (type, length, data): router alert
RouterAlert == [OptionType |-> 148, OptionLength |-> 4, OptionData |-> <<0, 0>>]

\* IPv4/UDP frames, unfragmented
ValidFrames ==
    { BaseFrame,
      [BaseFrame EXCEPT !.ttl = 1, !.tos = 16, !.flags = {"DF"}, !.ihl = 6, !.length = 32,
                        !.options = <<RouterAlert>>, !.data = <<>>],
      [BaseFrame EXCEPT !.dport = 53] }

\* a TCP segment, an ICMP message, an ARP frame, a UDP datagram over IPv6,
\* the first fragment of a UDP datagram
OtherFrames ==
    { [BaseFrame EXCEPT !.protocol = 6],
      [BaseFrame EXCEPT !.protocol = 1],
      [BaseFrame EXCEPT !.etype = "ARP"],
      [BaseFrame EXCEPT !.etype = "IPv6"],
      [BaseFrame EXCEPT !.flags = {"MF"}] }

Frames == ValidFrames \cup OtherFrames

\* UDP ports for which the packet decoder knows an application layer
AppPorts == {53}

IsFragment(f) == "MF" \in f.flags \/ f.fragoff # 0

\* packet.NetworkLayer(): the network layer the capture decoder found
NetworkLayer(f) == IF f.etype \in {"IPv4", "IPv6"} THEN f.etype ELSE Nil

\* packet.TransportLayer(): the transport layer the capture decoder found
TransportLayer(f) ==
    IF NetworkLayer(f) = Nil THEN Nil
    ELSE IF f.etype = "IPv4" /\ IsFragment(f) THEN Nil
    ELSE IF f.protocol = 17 THEN "UDP"
    ELSE IF f.protocol = 6 THEN "TCP"
    ELSE Nil

\* packet.ErrorLayer(): set when a layer failed to decode; here the
\* application layer of a known port, whose data is too short for it
ErrorLayer(f) ==
    IF TransportLayer(f) = "UDP" /\ (f.dport \in AppPorts \/ f.sport \in AppPorts) /\ f.data # <<>>
    THEN "DecodeFailure" ELSE Nil

\* the UDP segment of a frame: the 8 bytes of the UDP header (ports, length,
\* checksum; one element per 16-bit field) followed by the application data
UDPSegment(f) == <<f.sport, f.dport, 8 + Len(f.data), 0>> \o f.data

\* parser.DecodeLayers(sndpkt.packet.Data(), &decoded) with the decoders
\* sendPacket registers: link layer, IPv4, UDP, Payload
DecodeLayers(linkType, f) ==
    LET link == IF linkType = LinkTypeEthernet THEN "Ethernet" ELSE "Loopback" IN
    IF f.etype # "IPv4"
    THEN [err |-> "UnsupportedLayerType", decoded |-> <<link>>, payload |-> <<>>]
    ELSE IF IsFragment(f) \/ f.protocol # 17
    THEN [err |-> "UnsupportedLayerType", decoded |-> <<link, "IPv4">>, payload |-> <<>>]
    ELSE IF f.data = <<>>
    THEN [err |-> Nil, decoded |-> <<link, "IPv4", "UDP">>, payload |-> <<>>]
    ELSE IF f.dport \in AppPorts \/ f.sport \in AppPorts
    THEN [err |-> "UnsupportedLayerType", decoded |-> <<link, "IPv4", "UDP">>, payload |-> <<>>]
    ELSE [err |-> Nil, decoded |-> <<link, "IPv4", "UDP", "Payload">>, payload |-> f.data]

(***************************************************************************)
(* State.                                                                  *)
(***************************************************************************)
VARIABLES
    config,      \* lp: the list of interface@ip entries given to the process
    host,        \* the devices of the host, as pcap.FindAllDevs reports them
    proc,        \* "running", or "fatal" once log.Fatal has ended the process
    mainpc,      \* position of the startup code
    idx,         \* index of the entry or listener the startup code is at
    interfaces,  \* *interfaces: the interface names processListener has seen
    ret,         \* ret: the Listen records processListener has built
    listeners,   \* the Listen records initalizeListeners returned
    sendpkt,     \* l.sendpkt of every listener: the buffered channel's content
    senders,     \* the routing table of the SendPktFeed: interface name -> channel
    pc,          \* position of every listener's handlePackets goroutine
    pend,        \* the Send call in progress of every goroutine
    captured,    \* the frames captured so far and the listener that captured each
    handled,     \* the messages handed to sendPacket of every listener, in order
    sndpkt,      \* sendPacket's argument, while sendPacket runs
    h,           \* sendPacket's local h: the IPv4 header it built
    payload,     \* sendPacket's local payload: the decoded gopacket.Payload
    wire         \* the (header, body) pairs written to every raw socket

vars == <<config, host, proc, mainpc, idx, interfaces, ret, listeners, sendpkt,
          senders, pc, pend, captured, handled, sndpkt, h, payload, wire>>

startvars == <<mainpc, idx, interfaces, ret, listeners>>
loopvars == <<sendpkt, senders, pc, pend, captured, handled, sndpkt, h, payload, wire>>

SendBufferSize == 100

Listeners == 1..Len(listeners)

\* the zero values of a Send and of an ipv4.Header
NoSend == [id |-> 0, packet |-> [etype |-> Nil], srcif |-> <<>>, linkType |-> Nil]
NoHeader == [Version |-> 0]

NoPend == [msg |-> NoSend, todo |-> <<>>]

InitWith(cfgs, hosts) ==
    /\ config \in cfgs
    /\ host \in hosts
    /\ proc = "running"
    /\ mainpc = "processListener"
    /\ idx = 1
    /\ interfaces = <<>>
    /\ ret = <<>>
    /\ listeners = <<>>
    /\ sendpkt = <<>>
    /\ senders = {}
    /\ pc = <<>>
    /\ pend = <<>>
    /\ captured = <<>>
    /\ handled = <<>>
    /\ sndpkt = <<>>
    /\ h = <<>>
    /\ payload = <<>>
    /\ wire = <<>>

Init == InitWith(Configs, Hosts)

(***************************************************************************)
(* Startup: processListener, initalizeListeners, initalizeInterface.       *)
(***************************************************************************)
\* stringPrefixInSlice(a, list): some element of list begins with a
stringPrefixInSlice(a, list) == \E k \in 1..Len(list) : HasPrefix(list[k], a)

\* the Listen record processListener builds for one entry
NewListen(iface, ipaddr) ==
    [iface |-> iface, ipaddr |-> ipaddr, handle |-> Nil, linkType |-> Nil,
     raw |-> Nil, rawaddr |-> NilIP]

\* a variant of the test that takes an entry with more than one "@"
BadEntryAtLeastTwo(s) == Len(s) < 2

\* the test of processListener on the parts of an entry: not exactly two
BadEntry(s) == Len(s) # 2

\* one iteration of the loop of processListener
ProcessListener ==
    /\ proc = "running" /\ mainpc = "processListener" /\ idx <= Len(config)
    /\ LET s == Split(config[idx], "@") IN
       IF BadEntry(s)
       THEN /\ proc' = "fatal"
            /\ UNCHANGED <<idx, interfaces, ret>>
       ELSE IF stringPrefixInSlice(s[1] \o <<"@">>, interfaces)
       THEN /\ proc' = "fatal"
            /\ UNCHANGED <<idx, interfaces, ret>>
       ELSE /\ interfaces' = Append(interfaces, s[1])
            /\ ret' = Append(ret, NewListen(s[1], s[2]))
            /\ idx' = idx + 1
            /\ UNCHANGED proc
    /\ UNCHANGED <<config, host, mainpc, listeners>>
    /\ UNCHANGED loopvars

\* processListener returns ret, initalizeListeners copies it and returns
InitalizeListeners ==
    /\ proc = "running" /\ mainpc = "processListener" /\ idx > Len(config)
    /\ listeners' = ret
    /\ sendpkt' = [i \in 1..Len(ret) |-> <<>>]
    /\ pc' = [i \in 1..Len(ret) |-> "idle"]
    /\ pend' = [i \in 1..Len(ret) |-> NoPend]
    /\ handled' = [i \in 1..Len(ret) |-> <<>>]
    /\ sndpkt' = [i \in 1..Len(ret) |-> NoSend]
    /\ h' = [i \in 1..Len(ret) |-> NoHeader]
    /\ payload' = [i \in 1..Len(ret) |-> <<>>]
    /\ wire' = [i \in 1..Len(ret) |-> <<>>]
    /\ mainpc' = "initalizeInterface"
    /\ idx' = 1
    /\ UNCHANGED <<config, host, proc, interfaces, ret, senders, captured>>

\* a variant that takes the first address of the list, of whatever family
FirstAddress(addrs) == IF addrs = <<>> THEN NilIP ELSE Head(addrs)

\* the first address of the list that net.IP.To4 accepts, or nil
RECURSIVE FirstIPv4(_)
FirstIPv4(addrs) ==
    IF addrs = <<>> THEN NilIP
    ELSE IF To4(Head(addrs)) # NilIP THEN Head(addrs)
    ELSE FirstIPv4(Tail(addrs))

\* the places where a call of the operating system can fail in initalizeInterface
SetupFailures ==
    {"none", "FindAllDevs", "NewInactiveHandle", "Activate", "SetBPFFilter", "ListenPacket", "NewRawConn"}

\* state of the packet connection u when initalizeInterface returns:
\* the deferred u.Close() and p.Close() have run
ConnAfterReturn == "closed"

\* a variant of initalizeInterface that goes on without a raw socket when
\* NewRawConn fails
InitalizeInterfaceLenient ==
    /\ proc = "running" /\ mainpc = "initalizeInterface" /\ idx <= Len(listeners)
    /\ \E fail \in (IF idx = 1 THEN SetupFailures ELSE SetupFailures \ {"FindAllDevs"}) :
         LET l == listeners[idx]
             dev == host[l.iface]
             opened == [l EXCEPT !.handle = "open", !.linkType = dev.link]
             addr == FirstIPv4(dev.Addresses)
         IN
         IF Len(dev.Addresses) = 0 \/ fail \in {"FindAllDevs", "NewInactiveHandle", "Activate"}
         THEN /\ proc' = "fatal"
              /\ UNCHANGED <<listeners, idx>>
         ELSE IF fail = "SetBPFFilter"
         THEN /\ proc' = "fatal"
              /\ listeners' = [listeners EXCEPT ![idx] = opened]
              /\ UNCHANGED idx
         ELSE IF addr = NilIP \/ fail = "ListenPacket"
         THEN /\ proc' = "fatal"
              /\ listeners' = [listeners EXCEPT ![idx] = opened]
              /\ UNCHANGED idx
         ELSE IF fail = "NewRawConn"
         THEN /\ listeners' = [listeners EXCEPT ![idx] = [opened EXCEPT !.rawaddr = addr]]
              /\ idx' = idx + 1
              /\ UNCHANGED proc
         ELSE /\ listeners' = [listeners EXCEPT
                                  ![idx] = [opened EXCEPT !.raw = ConnAfterReturn, !.rawaddr = addr]]
              /\ idx' = idx + 1
              /\ UNCHANGED proc
    /\ UNCHANGED <<config, host, mainpc, interfaces, ret>>
    /\ UNCHANGED loopvars

\* initalizeInterface(&listeners[idx]), with the outcome fail of the system calls;
\* the devices are listed by the first call only, later calls find them cached
InitalizeInterface ==
    /\ proc = "running" /\ mainpc = "initalizeInterface" /\ idx <= Len(listeners)
    /\ \E fail \in (IF idx = 1 THEN SetupFailures ELSE SetupFailures \ {"FindAllDevs"}) :
         LET l == listeners[idx]
             dev == host[l.iface]
             opened == [l EXCEPT !.handle = "open", !.linkType = dev.link]
             addr == FirstIPv4(dev.Addresses)
         IN
         IF Len(dev.Addresses) = 0 \/ fail \in {"FindAllDevs", "NewInactiveHandle", "Activate"}
         THEN /\ proc' = "fatal"
              /\ UNCHANGED <<listeners, idx>>
         ELSE IF fail = "SetBPFFilter"
         THEN /\ proc' = "fatal"
              /\ listeners' = [listeners EXCEPT ![idx] = opened]
              /\ UNCHANGED idx
         ELSE IF addr = NilIP \/ fail = "ListenPacket"
         THEN /\ proc' = "fatal"
              /\ listeners' = [listeners EXCEPT ![idx] = opened]
              /\ UNCHANGED idx
         ELSE IF fail = "NewRawConn"
         THEN /\ proc' = "fatal"
              /\ listeners' = [listeners EXCEPT ![idx] = [opened EXCEPT !.rawaddr = addr]]
              /\ UNCHANGED idx
         ELSE /\ listeners' = [listeners EXCEPT
                                  ![idx] = [opened EXCEPT !.raw = ConnAfterReturn, !.rawaddr = addr]]
              /\ idx' = idx + 1
              /\ UNCHANGED proc
    /\ UNCHANGED <<config, host, mainpc, interfaces, ret>>
    /\ UNCHANGED loopvars

\* every listener is set up: the startup code goes on to start the goroutines
StartRelay ==
    /\ proc = "running" /\ mainpc = "initalizeInterface" /\ idx > Len(listeners)
    /\ mainpc' = "go"
    /\ idx' = 1
    /\ UNCHANGED <<config, host, proc, interfaces, ret, listeners>>
    /\ UNCHANGED loopvars

\* go listeners[idx].handlePackets(...)
GoHandlePackets ==
    /\ proc = "running" /\ mainpc = "go" /\ idx <= Len(listeners)
    /\ pc' = [pc EXCEPT ![idx] = "start"]
    /\ idx' = idx + 1
    /\ UNCHANGED <<config, host, proc, mainpc, interfaces, ret, listeners>>
    /\ UNCHANGED <<sendpkt, senders, pend, captured, handled, sndpkt, h, payload, wire>>

(***************************************************************************)
(* The SendPktFeed: the routing table and the fan-out.                     *)
(***************************************************************************)
\* s.RegisterSender(send, iface): senders[iface] = send
RegisterSender(table, send, iface) ==
    {p \in table : p[1] # iface} \cup {<<iface, send>>}

\* the channels Send(packet, srcif, linkType) sends to: those registered under
\* another name than srcif
SendTargets(table, srcif) == {p[2] : p \in {q \in table : q[1] # srcif}}

\* the orders in which a set can be walked
Orders(S) == {o \in [1..Cardinality(S) -> S] : \A a, b \in 1..Cardinality(S) : o[a] = o[b] => a = b}

(***************************************************************************)
(* handlePackets and sendPacket.                                           *)
(***************************************************************************)
\* a variant of handlePackets that enters its loop without registering
HandlePacketsNoRegister(i) ==
    /\ proc = "running" /\ pc[i] = "start"
    /\ pc' = [pc EXCEPT ![i] = "loop"]
    /\ UNCHANGED <<config, host, proc, sendpkt, senders, pend, captured, handled, sndpkt, h, payload, wire>>
    /\ UNCHANGED startvars

\* the first statement of handlePackets: the listener registers its channel
HandlePacketsRegister(i) ==
    /\ proc = "running" /\ pc[i] = "start"
    /\ senders' = RegisterSender(senders, i, listeners[i].iface)
    /\ pc' = [pc EXCEPT ![i] = "loop"]
    /\ UNCHANGED <<config, host, proc, sendpkt, pend, captured, handled, sndpkt, h, payload, wire>>
    /\ UNCHANGED startvars

\* a variant of the test that takes every packet with a transport layer
IsLegitAnyTransport(f) ==
    ~ (NetworkLayer(f) = Nil \/ TransportLayer(f) = Nil)

\* the test of handlePackets on a captured packet: is it legit?
IsLegit(f) ==
    ~ (NetworkLayer(f) = Nil \/ TransportLayer(f) = Nil \/ TransportLayer(f) # "UDP")

\* a variant that names the first configured interface as the source
SrcIfFirst(i) == listeners[1].iface

\* the source interface name handlePackets gives to Send
SrcIf(i) == listeners[i].iface

\* the Send value built for a captured packet
NewSend(i, id, f) ==
    [id |-> id, packet |-> f, srcif |-> SrcIf(i), linkType |-> listeners[i].linkType]

\* the packet case of the select, up to the call of Send: an invalid packet is
\* dropped, a valid one starts a walk over the routing table
CaptureStep(i, id, f) ==
    /\ proc = "running" /\ pc[i] = "loop"
    /\ IF ~ IsLegit(f)
       THEN UNCHANGED <<pc, pend>>
       ELSE \E order \in Orders(SendTargets(senders, SrcIf(i))) :
              IF order = <<>>
              THEN UNCHANGED <<pc, pend>>
              ELSE /\ pend' = [pend EXCEPT ![i] = [msg |-> NewSend(i, id, f), todo |-> order]]
                   /\ pc' = [pc EXCEPT ![i] = "send"]
    /\ UNCHANGED <<config, host, proc, sendpkt, senders, handled, sndpkt, h, payload, wire>>
    /\ UNCHANGED startvars

\* a frame arrives on the interface of listener i
Capture(i) ==
    /\ Len(captured) < (IF Len(listeners) > 2 THEN MaxCapturesWide ELSE MaxCaptures)
    /\ \E f \in Frames :
         /\ captured' = Append(captured, [listener |-> i, frame |-> f])
         /\ CaptureStep(i, Len(captured) + 1, f)

\* a frame arrives on the interface of listener i, in a run that follows the
\* channels only: every frame is the same and the frames are not told apart
CaptureSame(i) ==
    /\ CaptureStep(i, 0, BaseFrame)
    /\ UNCHANGED captured

\* a variant of Send that puts the message at the front of the channel
SendEnqueueFront(i) ==
    /\ proc = "running" /\ pc[i] = "send"
    /\ LET c == Head(pend[i].todo) IN
       /\ Len(sendpkt[c]) < SendBufferSize
       /\ sendpkt' = [sendpkt EXCEPT ![c] = <<pend[i].msg>> \o @]
    /\ IF Tail(pend[i].todo) = <<>>
       THEN /\ pend' = [pend EXCEPT ![i] = NoPend]
            /\ pc' = [pc EXCEPT ![i] = "loop"]
       ELSE /\ pend' = [pend EXCEPT ![i].todo = Tail(@)]
            /\ UNCHANGED pc
    /\ UNCHANGED <<config, host, proc, senders, captured, handled, sndpkt, h, payload, wire>>
    /\ UNCHANGED startvars

\* Send puts the message on the next channel of its walk; it waits while that
\* channel is full
SendEnqueue(i) ==
    /\ proc = "running" /\ pc[i] = "send"
    /\ LET c == Head(pend[i].todo) IN
       /\ Len(sendpkt[c]) < SendBufferSize
       /\ sendpkt' = [sendpkt EXCEPT ![c] = Append(@, pend[i].msg)]
    /\ IF Tail(pend[i].todo) = <<>>
       THEN /\ pend' = [pend EXCEPT ![i] = NoPend]
            /\ pc' = [pc EXCEPT ![i] = "loop"]
       ELSE /\ pend' = [pend EXCEPT ![i].todo = Tail(@)]
            /\ UNCHANGED pc
    /\ UNCHANGED <<config, host, proc, senders, captured, handled, sndpkt, h, payload, wire>>
    /\ UNCHANGED startvars

\* the text of an IP option, as IPv4Option.String() prints it
RECURSIVE JoinBytes(_)
JoinBytes(bs) ==
    IF bs = <<>> THEN <<>>
    ELSE IF Len(bs) = 1 THEN Itoa(bs[1])
    ELSE Itoa(bs[1]) \o <<" ">> \o JoinBytes(Tail(bs))

OptionString(o) ==
    <<"I", "P", "v", "4", "O", "p", "t", "i", "o", "n", "(">> \o Itoa(o.OptionType)
        \o <<":", "[">> \o JoinBytes(o.OptionData) \o <<"]", ")">>

\* ip_options: the concatenation of the texts of the options
RECURSIVE IpOptions(_)
IpOptions(opts) ==
    IF opts = <<>> THEN <<>> ELSE OptionString(Head(opts)) \o IpOptions(Tail(opts))

\* a variant of the header that counts a hop and keeps the captured destination
NewHeaderRouted(ip4, l) ==
    [Version |-> 4,
     Len |-> ip4.ihl * 4,
     TOS |-> ip4.tos,
     TotalLen |-> ip4.length,
     ID |-> ip4.id,
     Flags |-> {},
     FragOff |-> ip4.fragoff,
     TTL |-> ip4.ttl - 1,
     Protocol |-> 17,
     Checksum |-> 0,
     Src |-> To4(ip4.src),
     Dst |-> To4(ip4.dst),
     Options |-> IpOptions(ip4.options)]

\* the ipv4.Header sendPacket builds from the decoded header ip4 on listener l
NewHeader(ip4, l) ==
    [Version |-> 4,
     Len |-> ip4.ihl * 4,
     TOS |-> ip4.tos,
     TotalLen |-> ip4.length,
     ID |-> ip4.id,
     Flags |-> {},
     FragOff |-> ip4.fragoff,
     TTL |-> ip4.ttl,
     Protocol |-> 17,
     Checksum |-> 0,
     Src |-> To4(ip4.src),
     Dst |-> To4(ParseIP(l.ipaddr)),
     Options |-> IpOptions(ip4.options)]

\* the link types sendPacket has a parser for
validLinkTypes == {LinkTypeLoop, LinkTypeEthernet, LinkTypeNull}

\* the sendpkt case of the select and sendPacket up to the header: the message
\* is taken from the channel, decoded and the new header is built
SendPacketBuild(i) ==
    /\ proc = "running" /\ pc[i] = "loop" /\ sendpkt[i] # <<>>
    /\ LET m == Head(sendpkt[i])
           d == DecodeLayers(m.linkType, m.packet)
       IN
       /\ sendpkt' = [sendpkt EXCEPT ![i] = Tail(@)]
       /\ handled' = [handled EXCEPT ![i] = Append(@, m)]
       /\ IF m.linkType \notin validLinkTypes
          THEN /\ proc' = "fatal"
               /\ sndpkt' = [sndpkt EXCEPT ![i] = m]
               /\ UNCHANGED <<pc, h, payload>>
          ELSE IF d.err # Nil
          THEN UNCHANGED <<proc, pc, sndpkt, h, payload>>
          ELSE IF ~ (\E k \in 1..Len(d.decoded) : d.decoded[k] = "UDP")
                  \/ ~ (\E k \in 1..Len(d.decoded) : d.decoded[k] = "IPv4")
          THEN UNCHANGED <<proc, pc, sndpkt, h, payload>>
          ELSE /\ sndpkt' = [sndpkt EXCEPT ![i] = m]
               /\ h' = [h EXCEPT ![i] = NewHeader(m.packet, listeners[i])]
               /\ payload' = [payload EXCEPT ![i] = d.payload]
               /\ pc' = [pc EXCEPT ![i] = "write"]
               /\ UNCHANGED proc
    /\ UNCHANGED <<config, host, senders, pend, captured, wire>>
    /\ UNCHANGED startvars

\* a variant of the end of sendPacket that puts the message back on the channel
\* when the raw socket refuses it
SendPacketWriteRetry(i) ==
    /\ proc = "running" /\ pc[i] = "write"
    /\ IF listeners[i].raw # "open"
       THEN /\ sendpkt' = [sendpkt EXCEPT ![i] = Append(@, sndpkt[i])]
            /\ pc' = [pc EXCEPT ![i] = "loop"]
            /\ UNCHANGED <<proc, wire, sndpkt, h, payload>>
       ELSE /\ \E err \in BOOLEAN :
                 wire' = [wire EXCEPT ![i] =
                            IF err THEN @ ELSE Append(@, [header |-> h[i], body |-> payload[i]])]
            /\ pc' = [pc EXCEPT ![i] = "loop"]
            /\ sndpkt' = [sndpkt EXCEPT ![i] = NoSend]
            /\ h' = [h EXCEPT ![i] = NoHeader]
            /\ payload' = [payload EXCEPT ![i] = <<>>]
            /\ UNCHANGED <<proc, sendpkt>>
    /\ UNCHANGED <<config, host, senders, pend, captured, handled>>
    /\ UNCHANGED startvars

\* the end of sendPacket: SetControlMessage and WriteTo on the raw socket
SendPacketWrite(i) ==
    /\ proc = "running" /\ pc[i] = "write"
    /\ IF listeners[i].raw # "open"
       THEN /\ proc' = "fatal"
            /\ UNCHANGED <<pc, wire, sndpkt, h, payload>>
       ELSE /\ \E err \in BOOLEAN :
                 wire' = [wire EXCEPT ![i] =
                            IF err THEN @ ELSE Append(@, [header |-> h[i], body |-> payload[i]])]
            /\ pc' = [pc EXCEPT ![i] = "loop"]
            /\ sndpkt' = [sndpkt EXCEPT ![i] = NoSend]
            /\ h' = [h EXCEPT ![i] = NoHeader]
            /\ payload' = [payload EXCEPT ![i] = <<>>]
            /\ UNCHANGED proc
    /\ UNCHANGED <<config, host, sendpkt, senders, pend, captured, handled>>
    /\ UNCHANGED startvars

\* the ticker case of the select: a debug line
Ticker(i) ==
    /\ proc = "running" /\ pc[i] = "loop"
    /\ UNCHANGED vars

Next ==
    \/ ProcessListener
    \/ InitalizeListeners
    \/ InitalizeInterface
    \/ StartRelay
    \/ GoHandlePackets
    \/ \E i \in Listeners : HandlePacketsRegister(i)
    \/ \E i \in Listeners : Capture(i)
    \/ \E i \in Listeners : SendEnqueue(i)
    \/ \E i \in Listeners : SendPacketBuild(i)
    \/ \E i \in Listeners : SendPacketWrite(i)
    \/ \E i \in Listeners : Ticker(i)

Spec == Init /\ [][Next]_vars

\* every listener index of every configuration
AllListeners == UNION {1..Len(c) : c \in Configs}

\* the Go scheduler runs every goroutine that can take a step; the select of
\* handlePackets takes a case that stays ready
Fairness ==
    /\ WF_vars(ProcessListener \/ InitalizeListeners \/ InitalizeInterface
                 \/ StartRelay \/ GoHandlePackets)
    /\ \A i \in AllListeners :
         /\ WF_vars(i \in Listeners /\ HandlePacketsRegister(i))
         /\ WF_vars(i \in Listeners /\ SendEnqueue(i))
         /\ WF_vars(i \in Listeners /\ SendPacketBuild(i))
         /\ WF_vars(i \in Listeners /\ SendPacketWrite(i))

FairSpec == Spec /\ Fairness

\* the runs that fill the channels: two interfaces, one kind of frame
SatInit == InitWith({<<At(eth0, Bcast1), At(eth1, Bcast2)>>}, Hosts)

SatNext ==
    \/ ProcessListener
    \/ InitalizeListeners
    \/ InitalizeInterface
    \/ StartRelay
    \/ GoHandlePackets
    \/ \E i \in Listeners : HandlePacketsRegister(i)
    \/ \E i \in Listeners : CaptureSame(i)
    \/ \E i \in Listeners : SendEnqueue(i)
    \/ \E i \in Listeners : SendPacketBuild(i)
    \/ \E i \in Listeners : SendPacketWrite(i)
    \/ \E i \in Listeners : Ticker(i)

SatSpec == SatInit /\ [][SatNext]_vars

\* the runs with a stalled listener: three interfaces, frames arrive on the
\* first one only, and the loop of the last one never takes its sendpkt case
Stalled == 3

StallInit == InitWith({<<At(eth0, Bcast1), At(eth1, Bcast2), At(eth2, Bcast3)>>}, Hosts)

\* an IPv4/UDP frame that sendPacket cannot decode: its message ends in
\* sendPacket with a warning
DnsFrame == [BaseFrame EXCEPT !.dport = 53]

\* a frame arrives on the first interface once every loop runs; the frames are
\* not told apart
CaptureStall(i) ==
    /\ i = 1 /\ \A j \in Listeners : pc[j] \notin {"idle", "start"}
    /\ CaptureStep(i, 0, DnsFrame)
    /\ UNCHANGED captured

StallNext ==
    \/ ProcessListener
    \/ InitalizeListeners
    \/ InitalizeInterface
    \/ StartRelay
    \/ GoHandlePackets
    \/ \E i \in Listeners : HandlePacketsRegister(i)
    \/ \E i \in Listeners : CaptureStall(i)
    \/ \E i \in Listeners : SendEnqueue(i)
    \/ \E i \in Listeners \ {Stalled} : SendPacketBuild(i)
    \/ \E i \in Listeners : Ticker(i)

StallSpec == StallInit /\ [][StallNext]_vars

\* every goroutine but the stalled one takes the steps it can take
StallFairness ==
    /\ WF_vars(ProcessListener \/ InitalizeListeners \/ InitalizeInterface
                 \/ StartRelay \/ GoHandlePackets)
    /\ \A i \in 1..3 :
         /\ WF_vars(i \in Listeners /\ HandlePacketsRegister(i))
         /\ WF_vars(i \in Listeners /\ SendEnqueue(i))
         /\ WF_vars(i \in Listeners \ {Stalled} /\ SendPacketBuild(i))

StallFairSpec == StallSpec /\ StallFairness

(***************************************************************************)
(* Properties.                                                             *)
(***************************************************************************)
WellFormed(entry) == Len(Split(entry, "@")) = 2

EntryName(entry) == Split(entry, "@")[1]

EntryAddr(entry) == Split(entry, "@")[2]

HasMalformed(c) == \E k \in 1..Len(c) : ~ WellFormed(c[k])

FirstMalformed(c) ==
    CHOOSE k \in 1..Len(c) : ~ WellFormed(c[k]) /\ \A j \in 1..(k - 1) : WellFormed(c[j])

HasDuplicate(c) ==
    \E j, k \in 1..Len(c) :
        j # k /\ WellFormed(c[j]) /\ WellFormed(c[k]) /\ EntryName(c[j]) = EntryName(c[k])

\* well-formed entries with pairwise distinct interface names
DistinctConfig(c) == ~ HasMalformed(c) /\ ~ HasDuplicate(c)

\* the configurations of each kind, and the parts of their entries
MalformedLists == {c \in Configs : HasMalformed(c)}
DuplicateLists == {c \in Configs : HasDuplicate(c)}
DistinctLists == {c \in Configs : DistinctConfig(c)}
FirstMalformedOf == [c \in MalformedLists |-> FirstMalformed(c)]
PartsOf == [c \in DistinctLists |-> [k \in 1..Len(c) |-> Split(c[k], "@")]]

\* the goroutine of listener i is past the registration, in its loop
InLoop(i) == pc[i] \in {"loop", "send", "write"}

Registered(i) == <<listeners[i].iface, i>> \in senders

\* the messages that are in a channel, in a Send call or were given to sendPacket
MessagesAt(i) ==
    {sendpkt[i][k] : k \in 1..Len(sendpkt[i])} \cup {handled[i][k] : k \in 1..Len(handled[i])}

MessagesSent == {pend[i].msg : i \in {j \in Listeners : pend[j].msg # NoSend}}

IsIPv4UDP(f) == f.etype = "IPv4" /\ ~ IsFragment(f) /\ f.protocol = 17

\* C6: a configuration list that names an interface in two or more entries
\* never gets past processListener: no list of Endpoints is returned.
DuplicateRejected ==
    config \in DuplicateLists => (mainpc = "processListener" /\ listeners = <<>>)

\* C7: with a malformed entry in the list, the process ends in processListener
\* at the first malformed entry, before any capture handle is opened and before
\* any Endpoint is registered.
MalformedRejected ==
    config \in MalformedLists =>
        /\ mainpc = "processListener"
        /\ idx <= FirstMalformedOf[config]
        /\ (proc = "fatal" => idx = FirstMalformedOf[config])
        /\ (idx = FirstMalformedOf[config] => ~ ENABLED (ProcessListener /\ proc' = "running"))
        /\ listeners = <<>>
        /\ \A k \in 1..Len(ret) : ret[k].handle = Nil
        /\ senders = {}

\* C7 witness: the process has ended at a malformed entry that is not the first
MalformedRejectedWitness ==
    config \in MalformedLists /\ proc = "fatal" /\ idx > 1 /\ ret # <<>>

C8State ==
    config \in DistinctLists =>
        /\ mainpc # "processListener" =>
              /\ Len(listeners) = Len(config)
              /\ \A k \in 1..Len(config) :
                    /\ listeners[k].iface = PartsOf[config][k][1]
                    /\ listeners[k].ipaddr = PartsOf[config][k][2]
                    /\ Len(sendpkt[k]) <= SendBufferSize
        /\ \A i \in Listeners :
              /\ InLoop(i) => Registered(i)
              /\ (handled[i] # <<>> \/ pend[i].msg # NoSend) => Registered(i)
        /\ \A k \in 1..Len(captured) : Registered(captured[k].listener)
        /\ (listeners # <<>> /\ \A i \in Listeners : InLoop(i)) =>
              Cardinality(senders) = Len(config)

C8Step ==
    config \in DistinctLists =>
        \A i \in Listeners :
            /\ (Registered(i)' /\ ~ Registered(i)) => (pc[i] = "start" /\ pc'[i] = "loop")
            /\ Registered(i) => Registered(i)'
            /\ pc[i] \notin {"idle", "start"} => pc'[i] \notin {"idle", "start"}

\* C8: for a well-formed list of N distinct interfaces, N Endpoints are made,
\* one per entry, each registers once, at the start of its goroutine and before
\* it handles a frame or a message, and the table has N entries once all loops run.
EndpointsCreatedAndRegistered == [] C8State /\ [][C8Step]_vars

\* C8 witness: three Endpoints, all in their loops, and a frame was captured
EndpointsCreatedWitness ==
    /\ config \in DistinctLists /\ Len(config) = 3
    /\ listeners # <<>> /\ \A i \in Listeners : InLoop(i)
    /\ captured # <<>>

\* the message of captured frame id was given to sendPacket of listener j
HandedTo(j, id) == \E k \in 1..Len(handled[j]) : handled[j][k].id = id

\* every IPv4/UDP frame captured so far was given to sendPacket of every
\* listener other than the one that captured it
AllHandedOn ==
    \A id \in 1..Len(captured) : \A j \in Listeners :
        (j # captured[id].listener /\ IsIPv4UDP(captured[id].frame)) => HandedTo(j, id)

\* C1: every IPv4/UDP frame captured on one interface is in the end handed to
\* sendPacket of every other configured Endpoint (the captures of a run are
\* finitely many and what was handed on stays handed on, so the runs in which
\* every capture leads to its hand-over are those that end with all handed on).
FanOutComplete == <>[] AllHandedOn

\* C2: no channel holds, and no sendPacket is given, a message that was captured
\* on the interface of that same Endpoint.
NoSelfDelivery ==
    \A i \in Listeners : \A m \in MessagesAt(i) :
        /\ m.srcif # listeners[i].iface
        /\ captured[m.id].listener # i
        /\ listeners[captured[m.id].listener].iface # listeners[i].iface

\* C2 witness: a message of another interface was given to sendPacket
NoSelfDeliveryWitness ==
    \E i \in Listeners : handled[i] # <<>> /\ sendpkt[i] # <<>>

BodyIsUDPSegment ==
    \A i \in Listeners :
        pc[i] = "write" => payload[i] = UDPSegment(sndpkt[i].packet)

\* C5: the header built on Endpoint i has the captured source and TTL, the
\* destination configured for i, protocol 17, version 4 and checksum 0.
HeaderRewrite ==
    \A i \in Listeners :
        pc[i] = "write" =>
            /\ h[i].Src = sndpkt[i].packet.src
            /\ Len(h[i].Dst) = 4
            /\ Dotted(h[i].Dst) = listeners[i].ipaddr
            /\ (h[i].Dst = sndpkt[i].packet.dst => Dotted(sndpkt[i].packet.dst) = listeners[i].ipaddr)
            /\ h[i].TTL = sndpkt[i].packet.ttl
            /\ h[i].Protocol = 17
            /\ h[i].Version = 4
            /\ h[i].Checksum = 0

\* C5 witness: a header was built for a frame captured with TTL 1
HeaderRewriteWitness ==
    \E i \in Listeners : pc[i] = "write" /\ sndpkt[i].packet.ttl = 1

UDPOverIP(f) == NetworkLayer(f) # Nil /\ TransportLayer(f) = "UDP"

C9State ==
    \A m \in MessagesSent \cup UNION {MessagesAt(i) : i \in Listeners} : UDPOverIP(m.packet)

C9Step ==
    (Len(captured') > Len(captured) /\ ~ UDPOverIP(captured'[Len(captured')].frame)) =>
        UNCHANGED <<proc, pc, pend, sendpkt, handled, sndpkt, wire>>

\* C9: a frame without network layer, without transport layer or with another
\* transport than UDP is dropped by the loop that captured it: it is in no Send
\* call, in no channel and at no sendPacket, and the loop goes on.
InvalidDropped == [] C9State /\ [][C9Step]_vars

\* C9 witness: an ICMP message was captured while another Endpoint was registered
InvalidDroppedWitness ==
    \E k \in 1..Len(captured) :
        /\ captured[k].frame.protocol = 1
        /\ pc[captured[k].listener] = "loop"
        /\ SendTargets(senders, listeners[captured[k].listener].iface) # {}

\* listener i has been through initalizeInterface
SetUp(i) == (mainpc = "initalizeInterface" /\ idx > i) \/ mainpc = "go"

\* C10: after initalizeInterface the raw socket of an Endpoint is open, and it
\* is open whenever sendPacket is about to use it.
RawSocketStaysOpen ==
    \A i \in Listeners :
        /\ SetUp(i) => listeners[i].raw = "open"
        /\ pc[i] = "write" => listeners[i].raw = "open"

\* a Send call has been made: a legit frame was captured by a running loop
SendHappened == \E k \in 1..Len(captured) : IsLegit(captured[k].frame)

\* this step captures a legit frame, that is, it calls Send
CallsSend ==
    Len(captured') > Len(captured) /\ IsLegit(captured'[Len(captured')].frame)

C11Step ==
    config \in DistinctLists =>
        /\ SendHappened => senders' = senders
        /\ CallsSend => \A i \in Listeners : Registered(i)

\* C11: once any Endpoint has called Send the routing table is written no
\* more, and every Send call finds all configured Endpoints in the table.
TableFrozenBeforeSend == [][C11Step]_vars

\* C12: a captured frame whose error layer is set is not submitted to Send: it
\* is in no Send call, in no channel and at no sendPacket.
DecodeErrorDropped ==
    \A m \in MessagesSent \cup UNION {MessagesAt(i) : i \in Listeners} :
        ErrorLayer(m.packet) = Nil

\* C13: once the relay loops are started, no step of handling a packet ends
\* the process.
PacketErrorsNotFatal == [][(mainpc = "go" /\ proc = "running") => proc' = "running"]_vars

\* the bytes of the options of a header as they are on the wire: type, length
\* and data of each option
RECURSIVE OptionsWire(_)
OptionsWire(opts) ==
    IF opts = <<>> THEN <<>>
    ELSE <<Head(opts).OptionType, Head(opts).OptionLength>> \o Head(opts).OptionData
             \o OptionsWire(Tail(opts))

\* C14: the header built for a decoded message has the captured type of
\* service, identification, flags, fragment offset and the wire bytes of the
\* captured options; its length is 4 times the IHL, its total length the
\* captured total length.
PassThroughFields ==
    \A i \in Listeners :
        pc[i] = "write" =>
            /\ h[i].TOS = sndpkt[i].packet.tos
            /\ h[i].ID = sndpkt[i].packet.id
            /\ h[i].Flags = sndpkt[i].packet.flags
            /\ h[i].FragOff = sndpkt[i].packet.fragoff
            /\ h[i].Options = OptionsWire(sndpkt[i].packet.options)
            /\ h[i].Len = 4 * sndpkt[i].packet.ihl
            /\ h[i].TotalLen = sndpkt[i].packet.length

\* a Send call of listener a has a listener other than the stalled one still
\* to serve
OwesDelivery(a) ==
    pc[a] = "send" /\ \E k \in 1..Len(pend[a].todo) : pend[a].todo[k] # Stalled

Arrivals(j) == handled[j] \o sendpkt[j]

\* C16: the messages of one capturing Endpoint reach sendPacket of any other
\* Endpoint in the order in which their frames were captured.
PerSourceFIFO ==
    \A j \in Listeners :
        \A a, b \in 1..Len(Arrivals(j)) :
            (a < b /\ captured[Arrivals(j)[a].id].listener = captured[Arrivals(j)[b].id].listener)
                => Arrivals(j)[a].id < Arrivals(j)[b].id

\* C16 witness: sendPacket of one Endpoint got two messages of one source
PerSourceFIFOWitness ==
    \E j \in Listeners :
        /\ Len(handled[j]) >= 2
        /\ captured[handled[j][1].id].listener = captured[handled[j][2].id].listener
        /\ handled[j][1].packet # handled[j][2].packet

\* C17: every entry of the routing table is the channel of an Endpoint that went
\* through initalizeInterface with success: its capture handle is open and its
\* raw socket was created on an IPv4 address; while the setup is not over, or
\* after it failed, the table is empty.
NoPartialRegistration ==
    /\ \A p \in senders :
          /\ p[2] \in Listeners
          /\ listeners[p[2]].iface = p[1]
          /\ SetUp(p[2])
          /\ listeners[p[2]].handle = "open"
          /\ listeners[p[2]].raw # Nil
          /\ listeners[p[2]].rawaddr # NilIP
    /\ mainpc # "go" => senders = {}

\* C17 witness: two Endpoints are in the table while a third, set up as well,
\* is not yet
NoPartialRegistrationWitness ==
    /\ Len(listeners) = 3 /\ Cardinality(senders) = 2
    /\ \E i \in Listeners : ~ Registered(i) /\ pc[i] = "start"

\* the addresses the registry has for the interface of listener i
AddressesOf(i) == host[listeners[i].iface].Addresses

IsV4(a) == Len(a) = 4 \/ (Len(a) = 16 /\ SubSeq(a, 1, 12) = v4InV6Prefix)

NoAddress(i) == AddressesOf(i) = <<>>

NoV4Address(i) == ~ NoAddress(i) /\ \A k \in 1..Len(AddressesOf(i)) : ~ IsV4(AddressesOf(i)[k])

\* a is the first IPv4 address of the list addrs
FirstV4In(a, addrs) ==
    \E k \in 1..Len(addrs) :
        addrs[k] = a /\ IsV4(a) /\ \A j \in 1..(k - 1) : ~ IsV4(addrs[j])

C18State ==
    \A i \in Listeners :
        /\ NoAddress(i) => listeners[i].handle = Nil
        /\ (NoAddress(i) \/ NoV4Address(i)) =>
              /\ listeners[i].raw = Nil
              /\ ~ SetUp(i)
              /\ pc[i] = "idle"
              /\ ~ \E p \in senders : p[2] = i
              /\ wire[i] = <<>>
        /\ listeners[i].raw # Nil => FirstV4In(listeners[i].rawaddr, AddressesOf(i))

\* the call of initalizeInterface for such a listener ends the process
C18Step ==
    \A i \in Listeners :
        (mainpc = "initalizeInterface" /\ idx = i /\ (NoAddress(i) \/ NoV4Address(i))) =>
            proc' = "fatal"

\* C18: initalizeInterface ends the process for an interface without addresses
\* before it makes a capture handle, and for an interface without IPv4 address
\* before it makes a raw socket; such an Endpoint is never registered and never
\* transmits. A raw socket is bound to the first IPv4 address of the interface.
SetupNeedsEgressAddress == [] C18State /\ [][C18Step]_vars

\* C18 witness: the process ended in the setup of the third interface, which
\* has an IPv6 address only, after its capture handle was opened
SetupNeedsEgressAddressWitness ==
    /\ proc = "fatal" /\ mainpc = "initalizeInterface" /\ idx = 3
    /\ NoV4Address(3) /\ listeners[3].handle = "open"

C19State ==
    /\ \A j \in Listeners :
          /\ \A a, b \in 1..Len(Arrivals(j)) :
                a # b => Arrivals(j)[a].id # Arrivals(j)[b].id
          /\ Len(wire[j]) <= Len(handled[j])
    /\ \A i \in Listeners :
          pc[i] = "send" =>
              /\ \A a, b \in 1..Len(pend[i].todo) : a # b => pend[i].todo[a] # pend[i].todo[b]
              /\ \A a \in 1..Len(pend[i].todo) :
                    \A k \in 1..Len(Arrivals(pend[i].todo[a])) :
                        Arrivals(pend[i].todo[a])[k].id # pend[i].msg.id

C19Step ==
    \A j \in Listeners :
        \* a channel grows by the message of a Send call that has this channel
        \* next on its walk, and the walk does not come back to it
        /\ Len(sendpkt'[j]) > Len(sendpkt[j]) =>
              \E i \in Listeners :
                  /\ pc[i] = "send" /\ Head(pend[i].todo) = j
                  /\ sendpkt'[j] = Append(sendpkt[j], pend[i].msg)
                  /\ \A a \in 1..Len(pend'[i].todo) : pend'[i].todo[a] # j
        \* sendPacket gets to the raw socket for a message it has just taken
        \* from the channel
        /\ (pc[j] # "write" /\ pc'[j] = "write") =>
              /\ sendpkt[j] # <<>>
              /\ sendpkt'[j] = Tail(sendpkt[j])
              /\ handled'[j] = Append(handled[j], Head(sendpkt[j]))
              /\ sndpkt'[j] = Head(sendpkt[j])
        \* until sendPacket returns it takes no other message and writes at
        \* most once; when it returns the message is gone
        /\ pc[j] = "write" =>
              /\ sendpkt'[j] = sendpkt[j] \/ Len(sendpkt'[j]) > Len(sendpkt[j])
              /\ handled'[j] = handled[j]
              /\ Len(wire'[j]) <= Len(wire[j]) + 1
              /\ pc'[j] = "write" \/ (pc'[j] = "loop" /\ sndpkt'[j] = NoSend)
              /\ pc'[j] = "write" => (sndpkt'[j] = sndpkt[j] /\ wire'[j] = wire[j])

====
